---- MODULE Spec2Model ----
(***************************************************************************)
(* Model of two pieces of the scope report/app code:                       *)
(*   - report/sets.go: Sets, a string -> StringSet map whose every value   *)
(*     is backed by the process-wide CustomHashmap `customHashMap`, and    *)
(*     the RWMutex of that table (LockSpec);                               *)
(*   - the app's websocket topology handler, handleWebsocket and           *)
(*     websocketState.update (WsSpec; against a clock, PaceSpec), its      *)
(*     single-node handler handleNode (NodeSpec) and WriteToFile           *)
(*     (FileSpec).                                                         *)
(* Each part has its own specification; the variables a specification      *)
(* does not use stay at their initial values.                              *)
(***************************************************************************)
EXTENDS Integers, FiniteSets, Sequences, TLC

\* ---------------------------------------------------------------- bounds
NumKeys == 2
NumStrs == 2
NumOperands == 3
NumTopos == 1
MaxTime == 4
MaxLoop == 2
MaxOrigin == 1
NumNodes == 2
MaxFiltered == 2
NumGoroutines == 2

\* Map keys and the strings held in a StringSet.
Keys == 1..NumKeys
Strs == 1..NumStrs
StringSets == SUBSET Strs

VARIABLES
    customHashMap,  \* customHashMap.Map, the one table behind NewCustomHashMap()
    held,           \* the Sets value the caller got from its last call
    last,           \* the last Sets call: its arguments, its result, the table before it
    operand,        \* Sets values built independently, each by its own Add/AddString calls
    built,          \* per operand and key, the union of the sets those calls were given
    lastMerge,      \* the last Merge of two operands
    phase,          \* concurrent derivation: "setup", then "running"
    shared,         \* the Sets s both goroutines derive from, its contents at the start,
                    \* and the arguments k1, v1, k2, x of the two calls
    gpc,            \* where each goroutine is in its call
    glocal,         \* what each goroutine read in its Lookup
    derived,        \* the values a and b the two calls returned
    seen,           \* the last Lookup, Keys or Size another goroutine made on s
    hpc,            \* handleWebsocket: the statement the handler is at
    rpc,            \* the goroutine that reads from the connection
    response,       \* the HTTP status handleWebsocket answered with, 0 for none
    conn,           \* the websocket connection: "none", "open", "closed"
    peer,           \* the browser's end: "open", "closed" (close frame), "broken"
    quit,           \* TRUE once close(quit) has run
    subscribed,     \* TRUE between rep.WaitOn and rep.UnWait
    waitCh,         \* number of signals buffered in `wait` (capacity 1)
    ticker,         \* TRUE once time.Tick(loop) has run
    tickCh,         \* number of ticks buffered in `tick` (capacity 1)
    previousTopo,   \* wc.previousTopo
    inflight,       \* calls of wc.update begun and neither transmitted nor failed
    cause,          \* why the handler left its loop
    ctxDone,        \* TRUE once the caller's ctx has been cancelled
    request,        \* the request: its parameter t and its topology id
    fetched,        \* TRUE once rep.Report has been called
    cycle,          \* the update cycle in progress or just over: the summaries of
                    \* the cycle before it and of itself, its diff, and what became
                    \* of its WriteJSON
    client,         \* what the browser has got: the diffs written so far applied
                    \* in order to the empty summaries, and their number (2: more)
    now,            \* paced session: the clock, in time units
    loop,           \* the poll interval `loop`, in time units
    startReportingAt, \* wc.startReportingAt, the replay origin
    channelOpenedAt,  \* wc.channelOpenedAt
    tpc,            \* the statement the paced handler is at
    tickBuf,        \* ticks buffered in `tick` (capacity 1)
    waitBuf,        \* signals buffered in `wait` (capacity 1)
    cycleBegan,     \* the time the cycle in progress was begun at
    sent,           \* number of diffs WriteJSON has written
    fetches,        \* the first, the previous and the last call of rep.Report
    notified,       \* TRUE once the reporter has signalled the session
    slow,           \* TRUE once some cycle has lasted a poll interval or longer
    files,          \* the file system: what is at each path
    lastWrite,      \* the last call of WriteToFile: its path, its error, the file before
    nodeCall,       \* the last call of handleNode: what its collaborators returned
                    \* and what it answered
    mu,             \* customHashMap.mu: the goroutines holding it for reading and
                    \* those that have called Lock and wait for the readers to leave
    lcall           \* per goroutine, the Sets or CustomHashmap call it is in

setsVars == <<customHashMap, held, last>>

buildVars == <<operand, built, lastMerge>>

concVars == <<phase, shared, gpc, glocal, derived, seen>>

wsVars == <<hpc, rpc, response, conn, peer, quit, subscribed, waitCh, ticker, tickCh,
            previousTopo, inflight, cause, ctxDone, request, fetched, cycle,
            client>>

paceVars == <<now, loop, startReportingAt, channelOpenedAt, tpc, tickBuf, waitBuf,
              cycleBegan, sent, fetches, notified, slow>>

fileVars == <<files, lastWrite>>

nodeVars == <<nodeCall>>

lockVars == <<mu, lcall>>

otherThanSets == <<buildVars, concVars, wsVars, paceVars, fileVars, nodeVars, lockVars>>

otherThanBuild == <<held, last, concVars, wsVars, paceVars, fileVars, nodeVars, lockVars>>

otherThanConc == <<held, last, buildVars, wsVars, paceVars, fileVars, nodeVars, lockVars>>

otherThanWs == <<setsVars, buildVars, concVars, paceVars, fileVars, nodeVars, lockVars>>

otherThanPace == <<setsVars, buildVars, concVars, wsVars, fileVars, nodeVars, lockVars>>

otherThanFile == <<setsVars, buildVars, concVars, wsVars, paceVars, nodeVars, lockVars>>

otherThanNode == <<setsVars, buildVars, concVars, wsVars, paceVars, lockVars>>

otherThanLock == <<held, last, buildVars, concVars, wsVars, paceVars, fileVars, nodeVars>>

vars == <<setsVars, buildVars, concVars, wsVars, paceVars, fileVars, nodeVars, lockVars>>

\* ------------------------------------------------------------ StringSet
\* report.StringSet (string_set.go is not part of the sources at hand).
MakeStringSet == {}

StringSet_Add(s, str) == s \cup {str}

StringSet_Contains(s, str) == str \in s

\* Returns the union and whether the receiver already held all of `other`.
StringSet_Merge(s, other) ==
    [set |-> s \cup other, unchanged |-> (other \subseteq s)]

\* -------------------------------------------------------- CustomHashmap
\* A ps.Map pointer: nil, or the address of the package-level customHashMap.
NilPtr == "nil"
CustomPtr == "customHashMap"

\* map[string]interface{}{}
EmptyMap == [k \in {} |-> {}]

\* NewCustomHashMap returns the package-level pointer, never a new table.
NewCustomHashMap == CustomPtr

IsNil(cm) == cm = NilPtr

\* cm.Map[key] = value, under cm.mu; m is cm.Map. The result is the new cm.Map;
\* the method returns cm itself.
CustomHashmap_Set(m, key, value) ==
    [k \in (DOMAIN m) \cup {key} |-> IF k = key THEN value ELSE m[k]]

\* delete(cm.Map, key); returns cm itself.
CustomHashmap_Delete(m, key) ==
    [k \in (DOMAIN m) \ {key} |-> m[k]]

\* (val, ok); a nil interface value is written {} and is only read when ok.
CustomHashmap_Lookup(m, key) ==
    IF key \in DOMAIN m THEN [val |-> m[key], ok |-> TRUE]
    ELSE [val |-> {}, ok |-> FALSE]

CustomHashmap_Size(m) == Cardinality(DOMAIN m)

CustomHashmap_Keys(m) == DOMAIN m

\* ----------------------------------------------------------------- Sets
\* Sets{psMap}: the zero value has a nil psMap.
ZeroSets == [psMap |-> NilPtr]

emptySets == [psMap |-> NewCustomHashMap]

MakeSets == emptySets

\* Every operation below takes m, the contents of customHashMap.Map when it is
\* called, and the mutating ones return the Sets they return together with the
\* contents of customHashMap.Map when they return.

Sets_Keys(m, s) ==
    IF s.psMap = NilPtr THEN {} ELSE CustomHashmap_Keys(m)

Sets_Lookup(m, s, key) ==
    IF s.psMap = NilPtr THEN [set |-> MakeStringSet, found |-> FALSE]
    ELSE LET r == CustomHashmap_Lookup(m, key)
         IN  IF r.ok THEN [set |-> r.val, found |-> TRUE]
             ELSE [set |-> MakeStringSet, found |-> FALSE]

Sets_Size(m, s) ==
    IF s.psMap = NilPtr THEN 0 ELSE CustomHashmap_Size(m)

Sets_Add(m, s, key, value) ==
    LET s1 == IF s.psMap = NilPtr THEN emptySets ELSE s
        existing == CustomHashmap_Lookup(m, key)
        merged == StringSet_Merge(existing.val, value)
    IN  IF existing.ok /\ merged.unchanged
        THEN [result |-> s1, m |-> m]
        ELSE [result |-> [psMap |-> s1.psMap],
              m |-> CustomHashmap_Set(m, key,
                        IF existing.ok THEN merged.set ELSE value)]

Sets_AddString(m, s, key, str) ==
    LET s1 == IF s.psMap = NilPtr THEN emptySets ELSE s
        lk == Sets_Lookup(m, s1, key)
    IN  IF lk.found /\ StringSet_Contains(lk.set, str)
        THEN [result |-> s1, m |-> m]
        ELSE [result |-> [psMap |-> s1.psMap],
              m |-> CustomHashmap_Set(m, key, StringSet_Add(lk.set, str))]

Sets_Delete(m, s, key) ==
    IF s.psMap = NilPtr THEN [result |-> emptySets, m |-> m]
    ELSE LET psMap == s.psMap   \* CustomHashmap.Delete returns its receiver
         IN  [result |-> IF IsNil(psMap) THEN emptySets ELSE [psMap |-> psMap],
              m |-> CustomHashmap_Delete(m, key)]

\* The callback Merge passes to iter.ForEach, run for the keys in `todo`; both
\* result and iter are non-nil here, so both point at customHashMap and m is the
\* table of each. The keys are independent, so Go's map order does not matter.
RECURSIVE Sets_MergeForEach(_, _)
Sets_MergeForEach(m, todo) ==
    IF todo = {} THEN m
    ELSE LET key == CHOOSE k \in todo : TRUE
             set == m[key]
             existing == CustomHashmap_Lookup(m, key)
             merged == StringSet_Merge(existing.val, set)
             m1 == IF existing.ok /\ merged.unchanged THEN m
                   ELSE CustomHashmap_Set(m, key,
                            IF existing.ok THEN merged.set ELSE set)
         IN  Sets_MergeForEach(m1, (todo \ {key}) \cap DOMAIN m1)

\* The switch of Merge with its first case returning the receiver.
Sets_Merge_ReturnsReceiver(m, s, other) ==
    LET sSize == Sets_Size(m, s)
        otherSize == Sets_Size(m, other)
    IN  IF sSize = 0 THEN [result |-> s, m |-> m]
        ELSE IF otherSize = 0 THEN [result |-> s, m |-> m]
        ELSE [result |-> [psMap |-> IF sSize < otherSize THEN other.psMap ELSE s.psMap],
              m |-> Sets_MergeForEach(m, DOMAIN m)]

Sets_Merge(m, s, other) ==
    LET sSize == Sets_Size(m, s)
        otherSize == Sets_Size(m, other)
    IN  IF sSize = 0 THEN [result |-> other, m |-> m]
        ELSE IF otherSize = 0 THEN [result |-> s, m |-> m]
        ELSE [result |-> [psMap |-> IF sSize < otherSize THEN other.psMap ELSE s.psMap],
              m |-> Sets_MergeForEach(m, DOMAIN m)]

\* The table a Sets value denotes: what its Keys and Lookup show.
Sets_Contents(m, s) == IF s.psMap = NilPtr THEN EmptyMap ELSE m

\* mapEqual (map_helpers.go is not part of the sources at hand): a nil map has
\* size 0; equal sizes, and every key of one is in the other with an equal set.
mapEqual(a, b) ==
    /\ Cardinality(DOMAIN a) = Cardinality(DOMAIN b)
    /\ \A k \in DOMAIN a : k \in DOMAIN b /\ a[k] = b[k]

Sets_DeepEqual(m, s, t) == mapEqual(Sets_Contents(m, s), Sets_Contents(m, t))

\* ----------------------------------------------- the caller of Sets (Spec)
\* The receiver of a call: the zero value, a fresh MakeSets(), or the value held.
Receivers == {"zero", "MakeSets", "held"}

Receiver(r) ==
    IF r = "zero" THEN ZeroSets ELSE IF r = "MakeSets" THEN MakeSets ELSE held

NoCall ==
    [op |-> "none", recv |-> ZeroSets, fresh |-> FALSE, key |-> 1, value |-> {},
     other |-> ZeroSets, result |-> ZeroSets, before |-> EmptyMap]

SetsInit ==
    /\ customHashMap = EmptyMap
    /\ held = ZeroSets
    /\ last = NoCall

\* ------------------------------------- operands built side by side (BuildSpec)
Operands == 1..NumOperands

NoMerge == [done |-> FALSE, s1 |-> 1, s2 |-> 1, result |-> ZeroSets]

BuildInit ==
    /\ operand = [i \in Operands |-> MakeSets]
    /\ built = [i \in Operands |-> EmptyMap]
    /\ lastMerge = NoMerge

\* What a chain of calls has put under each key, with `value` added under `key`.
Added(b, key, value) ==
    [k \in (DOMAIN b) \cup {key} |->
        IF k = key THEN (IF key \in DOMAIN b THEN b[key] \cup value ELSE value)
        ELSE b[k]]

\* operand[i] = operand[i].Add(key, value)
BuildAdd ==
    \E i \in Operands, key \in Keys, value \in StringSets :
        LET res == Sets_Add(customHashMap, operand[i], key, value)
        IN  /\ customHashMap' = res.m
            /\ operand' = [operand EXCEPT ![i] = res.result]
            /\ built' = [built EXCEPT ![i] = Added(built[i], key, value)]
            /\ lastMerge' = NoMerge
            /\ UNCHANGED otherThanBuild

\* operand[i] = operand[i].AddString(key, str)
BuildAddString ==
    \E i \in Operands, key \in Keys, str \in Strs :
        LET res == Sets_AddString(customHashMap, operand[i], key, str)
        IN  /\ customHashMap' = res.m
            /\ operand' = [operand EXCEPT ![i] = res.result]
            /\ built' = [built EXCEPT ![i] = Added(built[i], key, {str})]
            /\ lastMerge' = NoMerge
            /\ UNCHANGED otherThanBuild

\* operand[i].Merge(operand[j])
BuildMerge ==
    \E i \in Operands, j \in Operands :
        LET res == Sets_Merge(customHashMap, operand[i], operand[j])
        IN  /\ customHashMap' = res.m
            /\ lastMerge' = [done |-> TRUE, s1 |-> i, s2 |-> j, result |-> res.result]
            /\ UNCHANGED <<operand, built>>
            /\ UNCHANGED otherThanBuild

BuildNext == BuildAdd \/ BuildAddString \/ BuildMerge

\* ------------------------------ two goroutines deriving from s (ConcSpec)
\* Goroutine "Add" runs a = s.Add(k1, v1), goroutine "AddString" runs
\* b = s.AddString(k2, x). Each CustomHashmap method holds cm.mu for its whole
\* body, so a method call is one step; a Sets method is two of them.
Goroutines == {"Add", "AddString"}

NoRead == [kind |-> "none", key |-> 1, lookup |-> [set |-> {}, found |-> FALSE],
           keys |-> {}, size |-> 0]

ConcInit ==
    /\ phase = "setup"
    /\ shared = [s |-> ZeroSets, orig |-> EmptyMap, k1 |-> 1, v1 |-> {}, k2 |-> 1, x |-> 1]
    /\ gpc = [g \in Goroutines |-> "idle"]
    /\ glocal = [g \in Goroutines |-> [val |-> {}, ok |-> FALSE]]
    /\ derived = [g \in Goroutines |-> ZeroSets]
    /\ seen = NoRead

\* Before the goroutines start, the program fills s by sequential Add calls.
ConcSetup ==
    /\ phase = "setup"
    /\ \E key \in Keys, value \in StringSets :
           customHashMap' = Sets_Add(customHashMap, MakeSets, key, value).m
    /\ UNCHANGED <<concVars, otherThanConc>>

\* go a = s.Add(k1, v1); go b = s.AddString(k2, x), with k1 # k2.
ConcStart ==
    /\ phase = "setup"
    /\ \E s \in {ZeroSets, MakeSets}, k1 \in Keys, k2 \in Keys, v1 \in StringSets, x \in Strs :
           /\ k1 # k2
           /\ shared' = [s |-> s, orig |-> Sets_Contents(customHashMap, s),
                         k1 |-> k1, v1 |-> v1, k2 |-> k2, x |-> x]
    /\ phase' = "running"
    /\ gpc' = [g \in Goroutines |-> "lookup"]
    /\ UNCHANGED <<customHashMap, glocal, derived, seen, otherThanConc>>

\* Sets.Add up to its return on `unchanged`: s.psMap.Lookup(key).
Add_Lookup ==
    /\ gpc["Add"] = "lookup"
    /\ LET s1 == IF shared.s.psMap = NilPtr THEN emptySets ELSE shared.s
           existing == CustomHashmap_Lookup(customHashMap, shared.k1)
       IN  /\ glocal' = [glocal EXCEPT !["Add"] = existing]
           /\ IF existing.ok /\ StringSet_Merge(existing.val, shared.v1).unchanged
              THEN /\ gpc' = [gpc EXCEPT !["Add"] = "done"]
                   /\ derived' = [derived EXCEPT !["Add"] = s1]
              ELSE /\ gpc' = [gpc EXCEPT !["Add"] = "set"]
                   /\ UNCHANGED derived
    /\ UNCHANGED <<customHashMap, phase, shared, seen, otherThanConc>>

\* Sets.Add: return Sets{psMap: s.psMap.Set(key, value)}, value from the Lookup.
Add_Set ==
    /\ gpc["Add"] = "set"
    /\ LET existing == glocal["Add"]
           value == IF existing.ok THEN StringSet_Merge(existing.val, shared.v1).set
                    ELSE shared.v1
       IN  customHashMap' = CustomHashmap_Set(customHashMap, shared.k1, value)
    /\ derived' = [derived EXCEPT !["Add"] = [psMap |-> CustomPtr]]
    /\ gpc' = [gpc EXCEPT !["Add"] = "done"]
    /\ UNCHANGED <<phase, shared, glocal, seen, otherThanConc>>

\* Sets.AddString up to its return on Contains: s.Lookup(key).
AddString_Lookup ==
    /\ gpc["AddString"] = "lookup"
    /\ LET s1 == IF shared.s.psMap = NilPtr THEN emptySets ELSE shared.s
           lk == Sets_Lookup(customHashMap, s1, shared.k2)
       IN  /\ glocal' = [glocal EXCEPT !["AddString"] = [val |-> lk.set, ok |-> lk.found]]
           /\ IF lk.found /\ StringSet_Contains(lk.set, shared.x)
              THEN /\ gpc' = [gpc EXCEPT !["AddString"] = "done"]
                   /\ derived' = [derived EXCEPT !["AddString"] = s1]
              ELSE /\ gpc' = [gpc EXCEPT !["AddString"] = "set"]
                   /\ UNCHANGED derived
    /\ UNCHANGED <<customHashMap, phase, shared, seen, otherThanConc>>

\* Sets.AddString: return Sets{psMap: s.psMap.Set(key, value.Add(str))}.
AddString_Set ==
    /\ gpc["AddString"] = "set"
    /\ customHashMap' = CustomHashmap_Set(customHashMap, shared.k2,
                            StringSet_Add(glocal["AddString"].val, shared.x))
    /\ derived' = [derived EXCEPT !["AddString"] = [psMap |-> CustomPtr]]
    /\ gpc' = [gpc EXCEPT !["AddString"] = "done"]
    /\ UNCHANGED <<phase, shared, glocal, seen, otherThanConc>>

\* Another goroutine reads s while and after the two calls run.
Read_Lookup ==
    /\ phase = "running"
    /\ \E key \in Keys :
           seen' = [NoRead EXCEPT !.kind = "Lookup", !.key = key,
                                  !.lookup = Sets_Lookup(customHashMap, shared.s, key)]
    /\ UNCHANGED <<customHashMap, phase, shared, gpc, glocal, derived, otherThanConc>>

Read_Keys ==
    /\ phase = "running"
    /\ seen' = [NoRead EXCEPT !.kind = "Keys", !.keys = Sets_Keys(customHashMap, shared.s)]
    /\ UNCHANGED <<customHashMap, phase, shared, gpc, glocal, derived, otherThanConc>>

Read_Size ==
    /\ phase = "running"
    /\ seen' = [NoRead EXCEPT !.kind = "Size", !.size = Sets_Size(customHashMap, shared.s)]
    /\ UNCHANGED <<customHashMap, phase, shared, gpc, glocal, derived, otherThanConc>>

ConcNext ==
    \/ ConcSetup \/ ConcStart
    \/ Add_Lookup \/ Add_Set \/ AddString_Lookup \/ AddString_Set
    \/ Read_Lookup \/ Read_Keys \/ Read_Size

\* ------------------------------------------- handleWebsocket (WsSpec)
\* One streaming request. The handler goroutine runs handleWebsocket and, inside
\* it, wc.update; a second goroutine reads from the connection; the browser, the
\* reporter and the ticker act from outside.
\* detailed.NodeSummaries, as the set of the ids of the nodes summarised.
Topos == SUBSET (1..NumTopos)

EmptyTopo == {}

\* detailed.TopoDiff(previous, current): the nodes to add and those to remove.
TopoDiff(previous, current) == [add |-> current \ previous, remove |-> previous \ current]

\* A diff applied to the summaries the browser holds.
ApplyDiff(topo, diff) == (topo \ diff.remove) \cup diff.add

NoCycle ==
    [preceding |-> EmptyTopo, newTopo |-> EmptyTopo, diff |-> TopoDiff(EmptyTopo, EmptyTopo),
     written |-> "none"]

NoClient == [topo |-> EmptyTopo, count |-> 0]

\* A request: its parameter t (absent, a duration, or not a duration) and
\* whether topologyRegistry knows its topology id.
Requests == [t : {"absent", "valid", "malformed"}, topology : {"known", "unknown"}]

NoRequest == [t |-> "unread", topology |-> "unread"]

WsInit ==
    /\ hpc = "ParseForm"
    /\ rpc = "none"
    /\ response = 0
    /\ conn = "none"
    /\ peer = "open"
    /\ quit = FALSE
    /\ subscribed = FALSE
    /\ waitCh = 0
    /\ ticker = FALSE
    /\ tickCh = 0
    /\ previousTopo = EmptyTopo
    /\ inflight = 0
    /\ cause = "none"
    /\ ctxDone = FALSE
    /\ request = NoRequest
    /\ fetched = FALSE
    /\ cycle = NoCycle
    /\ client = NoClient

\* The request handleWebsocket is called with; r.ParseForm(): on an error
\* respond 500 and return.
ParseForm ==
    /\ hpc = "ParseForm"
    /\ request' \in Requests
    /\ \/ hpc' = "ParseDuration" /\ UNCHANGED response
       \/ hpc' = "returned" /\ response' = 500
    /\ UNCHANGED <<rpc, conn, peer, quit, subscribed, waitCh, ticker, tickCh,
                   previousTopo, inflight, cause, ctxDone, fetched, cycle, client,
                   otherThanWs>>

\* t absent or parsed by time.ParseDuration; a malformed t: respond 400, return.
ParseDuration ==
    /\ hpc = "ParseDuration"
    /\ \/ request.t # "malformed" /\ hpc' = "Upgrade" /\ UNCHANGED response
       \/ request.t = "malformed" /\ hpc' = "returned" /\ response' = 400
    /\ UNCHANGED <<rpc, conn, peer, quit, subscribed, waitCh, ticker, tickCh,
                   previousTopo, inflight, cause, ctxDone, request, fetched, cycle,
                   client, otherThanWs>>

\* xfer.Upgrade: on an error return; otherwise defer conn.Close().
Upgrade ==
    /\ hpc = "Upgrade"
    /\ \/ hpc' = "go" /\ conn' = "open"
       \/ hpc' = "returned" /\ UNCHANGED conn
    /\ UNCHANGED <<rpc, response, peer, quit, subscribed, waitCh, ticker, tickCh,
                   previousTopo, inflight, cause, ctxDone, request, fetched, cycle,
                   client, otherThanWs>>

\* quit := make(chan struct{}); go func(c) {...}(conn); wc := websocketState{...}
StartReader ==
    /\ hpc = "go"
    /\ rpc' = "ReadMessage"
    /\ hpc' = "WaitOn"
    /\ UNCHANGED <<response, conn, peer, quit, subscribed, waitCh, ticker, tickCh,
                   previousTopo, inflight, cause, ctxDone, request, fetched, cycle,
                   client, otherThanWs>>

\* wait := make(chan struct{}, 1); rep.WaitOn(ctx, wait); defer rep.UnWait(ctx, wait)
WaitOn ==
    /\ hpc = "WaitOn"
    /\ subscribed' = TRUE
    /\ hpc' = "Tick"
    /\ UNCHANGED <<rpc, response, conn, peer, quit, waitCh, ticker, tickCh,
                   previousTopo, inflight, cause, ctxDone, request, fetched, cycle,
                   client, otherThanWs>>

\* tick := time.Tick(loop)
StartTicker ==
    /\ hpc = "Tick"
    /\ ticker' = TRUE
    /\ hpc' = "update"
    /\ UNCHANGED <<rpc, response, conn, peer, quit, subscribed, waitCh, tickCh,
                   previousTopo, inflight, cause, ctxDone, request, fetched, cycle,
                   client, otherThanWs>>

\* The loop calls wc.update(ctx).
Update_Begin ==
    /\ hpc = "update"
    /\ hpc' = "Report"
    /\ inflight' = inflight + 1
    /\ cycle' = [preceding |-> cycle.newTopo, newTopo |-> cycle.newTopo,
                 diff |-> TopoDiff(EmptyTopo, EmptyTopo), written |-> "none"]
    /\ UNCHANGED <<rpc, response, conn, peer, quit, subscribed, waitCh, ticker, tickCh,
                   previousTopo, cause, ctxDone, request, fetched, client, otherThanWs>>

\* A failed fetch that is retried: update's error does not end the loop.
Update_Report_Retry ==
    /\ hpc = "Report"
    /\ fetched' = TRUE
    /\ \/ hpc' = "RendererForTopology" /\ UNCHANGED <<inflight, cause>>
       \/ hpc' = "select" /\ inflight' = inflight - 1 /\ cause' = "Report"
    /\ UNCHANGED <<rpc, response, conn, peer, quit, subscribed, waitCh, ticker, tickCh,
                   previousTopo, ctxDone, request, cycle, client, otherThanWs>>

\* wc.rep.Report(ctx, reportTimestamp): an error is returned to the loop, which
\* logs it and returns.
Update_Report ==
    /\ hpc = "Report"
    /\ fetched' = TRUE
    /\ \/ hpc' = "RendererForTopology" /\ UNCHANGED <<inflight, cause>>
       \/ hpc' = "UnWait" /\ inflight' = inflight - 1 /\ cause' = "Report"
    /\ UNCHANGED <<rpc, response, conn, peer, quit, subscribed, waitCh, ticker, tickCh,
                   previousTopo, ctxDone, request, cycle, client, otherThanWs>>

\* topologyRegistry.RendererForTopology(wc.topologyID, ...): an error, which a
\* topology id the registry does not know always gets, ends the session too.
Update_RendererForTopology ==
    /\ hpc = "RendererForTopology"
    /\ \/ request.topology = "known" /\ hpc' = "TopoDiff" /\ UNCHANGED <<inflight, cause>>
       \/ hpc' = "UnWait" /\ inflight' = inflight - 1 /\ cause' = "RendererForTopology"
    /\ UNCHANGED <<rpc, response, conn, peer, quit, subscribed, waitCh, ticker, tickCh,
                   previousTopo, ctxDone, request, fetched, cycle, client, otherThanWs>>

\* The diff computed against the empty summaries: wc.previousTopo is not read.
Update_TopoDiff_FromEmpty ==
    /\ hpc = "TopoDiff"
    /\ \E newTopo \in Topos :
        /\ cycle' = [cycle EXCEPT !.newTopo = newTopo, !.diff = TopoDiff(EmptyTopo, newTopo)]
        /\ previousTopo' = newTopo
    /\ hpc' = "WriteJSON"
    /\ UNCHANGED <<rpc, response, conn, peer, quit, subscribed, waitCh, ticker, tickCh,
                   inflight, cause, ctxDone, request, fetched, client, otherThanWs>>

\* newTopo := ...; diff := TopoDiff(wc.previousTopo, newTopo); wc.previousTopo = newTopo
Update_TopoDiff ==
    /\ hpc = "TopoDiff"
    /\ \E newTopo \in Topos :
        /\ cycle' = [cycle EXCEPT !.newTopo = newTopo, !.diff = TopoDiff(previousTopo, newTopo)]
        /\ previousTopo' = newTopo
    /\ hpc' = "WriteJSON"
    /\ UNCHANGED <<rpc, response, conn, peer, quit, subscribed, waitCh, ticker, tickCh,
                   inflight, cause, ctxDone, request, fetched, client, otherThanWs>>

\* The loop goes on to its select although the diff has not been written yet.
Update_WriteJSON_Detached ==
    /\ hpc = "WriteJSON"
    /\ hpc' = "select"
    /\ UNCHANGED <<rpc, response, conn, peer, quit, subscribed, waitCh, ticker, tickCh,
                   previousTopo, inflight, cause, ctxDone, request, fetched, cycle,
                   client, otherThanWs>>

\* wc.conn.WriteJSON(diff) returns: written; or, with the browser gone, an
\* expected close error (update returns nil) or another error (update returns it).
Update_WriteJSON ==
    /\ hpc = "WriteJSON"
    /\ inflight' = inflight - 1
    /\ \/ /\ peer = "open"
          /\ hpc' = "select"
          /\ cycle' = [cycle EXCEPT !.written = "ok"]
          /\ client' = [topo |-> ApplyDiff(client.topo, cycle.diff),
                        count |-> IF client.count < 2 THEN client.count + 1 ELSE 2]
          /\ UNCHANGED cause
       \/ /\ peer # "open"
          /\ hpc' = "select"
          /\ cycle' = [cycle EXCEPT !.written = "expected"]
          /\ UNCHANGED <<cause, client>>
       \/ /\ peer # "open"
          /\ hpc' = "UnWait"
          /\ cycle' = [cycle EXCEPT !.written = "failed"]
          /\ cause' = "WriteJSON"
          /\ UNCHANGED client
    /\ UNCHANGED <<rpc, response, conn, peer, quit, subscribed, waitCh, ticker, tickCh,
                   previousTopo, ctxDone, request, fetched, otherThanWs>>

\* select: case <-wait
Select_Wait ==
    /\ hpc = "select"
    /\ waitCh = 1
    /\ waitCh' = 0
    /\ hpc' = "update"
    /\ UNCHANGED <<rpc, response, conn, peer, quit, subscribed, ticker, tickCh,
                   previousTopo, inflight, cause, ctxDone, request, fetched, cycle,
                   client, otherThanWs>>

\* select: case <-tick
Select_Tick ==
    /\ hpc = "select"
    /\ tickCh = 1
    /\ tickCh' = 0
    /\ hpc' = "update"
    /\ UNCHANGED <<rpc, response, conn, peer, quit, subscribed, waitCh, ticker,
                   previousTopo, inflight, cause, ctxDone, request, fetched, cycle,
                   client, otherThanWs>>

\* The quit case leaving only the select, not the function: the loop goes on.
Select_Quit_Break ==
    /\ hpc = "select"
    /\ quit
    /\ hpc' = "update"
    /\ UNCHANGED <<rpc, response, conn, peer, quit, subscribed, waitCh, ticker, tickCh,
                   previousTopo, inflight, cause, ctxDone, request, fetched, cycle,
                   client, otherThanWs>>

\* The quit case leaving the function without its deferred calls.
Select_Quit_NoDefer ==
    /\ hpc = "select"
    /\ quit
    /\ hpc' = "returned"
    /\ cause' = "quit"
    /\ UNCHANGED <<rpc, response, conn, peer, quit, subscribed, waitCh, ticker, tickCh,
                   previousTopo, inflight, ctxDone, request, fetched, cycle, client,
                   otherThanWs>>

\* select: case <-quit: return
Select_Quit ==
    /\ hpc = "select"
    /\ quit
    /\ hpc' = "UnWait"
    /\ cause' = "quit"
    /\ UNCHANGED <<rpc, response, conn, peer, quit, subscribed, waitCh, ticker, tickCh,
                   previousTopo, inflight, ctxDone, request, fetched, cycle, client,
                   otherThanWs>>

\* On return the deferred calls run, last deferred first: rep.UnWait(ctx, wait)
Defer_UnWait ==
    /\ hpc = "UnWait"
    /\ subscribed' = FALSE
    /\ hpc' = "Close"
    /\ UNCHANGED <<rpc, response, conn, peer, quit, waitCh, ticker, tickCh,
                   previousTopo, inflight, cause, ctxDone, request, fetched, cycle,
                   client, otherThanWs>>

\* ... then conn.Close()
Defer_Close ==
    /\ hpc = "Close"
    /\ conn' = "closed"
    /\ hpc' = "returned"
    /\ UNCHANGED <<rpc, response, peer, quit, subscribed, waitCh, ticker, tickCh,
                   previousTopo, inflight, cause, ctxDone, request, fetched, cycle,
                   client, otherThanWs>>

\* The reader: c.ReadMessage() returns an error once the browser has closed or
\* broken the connection, or the handler has closed it: close(quit); break.
\* While none of this has happened ReadMessage blocks or discards a message.
Reader_ReadMessage ==
    /\ rpc = "ReadMessage"
    /\ peer # "open" \/ conn = "closed"
    /\ quit' = TRUE
    /\ rpc' = "stopped"
    /\ UNCHANGED <<hpc, response, conn, peer, subscribed, waitCh, ticker, tickCh,
                   previousTopo, inflight, cause, ctxDone, request, fetched, cycle,
                   client, otherThanWs>>

\* The browser closes the websocket, or the connection breaks.
Peer_Close ==
    /\ conn # "none"
    /\ peer = "open"
    /\ peer' \in {"closed", "broken"}
    /\ UNCHANGED <<hpc, rpc, response, conn, quit, subscribed, waitCh, ticker, tickCh,
                   previousTopo, inflight, cause, ctxDone, request, fetched, cycle,
                   client, otherThanWs>>

\* The reporter signals a new report to the subscribed channel without blocking.
Notify ==
    /\ subscribed
    /\ waitCh = 0
    /\ waitCh' = 1
    /\ UNCHANGED <<hpc, rpc, response, conn, peer, quit, subscribed, ticker, tickCh,
                   previousTopo, inflight, cause, ctxDone, request, fetched, cycle,
                   client, otherThanWs>>

\* The ticker fires; a tick is dropped while one is still buffered. Nothing
\* stops the ticker when the handler returns.
Tick ==
    /\ ticker
    /\ tickCh = 0
    /\ tickCh' = 1
    /\ UNCHANGED <<hpc, rpc, response, conn, peer, quit, subscribed, waitCh, ticker,
                   previousTopo, inflight, cause, ctxDone, request, fetched, cycle,
                   client, otherThanWs>>

\* The caller cancels ctx. handleWebsocket hands ctx to WaitOn, UnWait and
\* wc.update (which hands it to Report); the select of its loop has no case
\* for ctx.Done().
Ctx_Cancel ==
    /\ ~ctxDone
    /\ ctxDone' = TRUE
    /\ UNCHANGED <<hpc, rpc, response, conn, peer, quit, subscribed, waitCh, ticker, tickCh,
                   previousTopo, inflight, cause, request, fetched, cycle, client,
                   otherThanWs>>

WsNext ==
    \/ ParseForm \/ ParseDuration \/ Upgrade \/ StartReader \/ WaitOn \/ StartTicker
    \/ Update_Begin \/ Update_Report \/ Update_RendererForTopology
    \/ Update_TopoDiff \/ Update_WriteJSON
    \/ Select_Wait \/ Select_Tick \/ Select_Quit
    \/ Defer_UnWait \/ Defer_Close
    \/ Reader_ReadMessage \/ Peer_Close \/ Notify \/ Tick \/ Ctx_Cancel

\* ------------------------------------ the update loop in time (PaceSpec)
\* The loop of handleWebsocket and wc.update against a clock: the session of a
\* browser that stays connected, with a reporter and a renderer that do not
\* fail. Time passes while wc.update runs and while the select has nothing to
\* receive; a goroutine that can run does so before the clock moves on.
Time == 0..MaxTime
MaxSent == MaxTime + 2

\* timestampDelta := time.Since(wc.channelOpenedAt)
\* reportTimestamp := wc.startReportingAt.Add(timestampDelta)
ReportTimestamp_FastForward(origin, openedAt, t) == origin + 2 * (t - openedAt)

ReportTimestamp(origin, openedAt, t) == origin + (t - openedAt)

NoFetch == [n |-> 0, first |-> [ts |-> 0, at |-> 0], prev |-> [ts |-> 0, at |-> 0],
            last |-> [ts |-> 0, at |-> 0]]

\* What `fetches` records once rep.Report(ctx, ts) has been called at time t.
Fetched(f, ts, t) ==
    LET call == [ts |-> ts, at |-> t]
    IN  [n |-> IF f.n < 2 THEN f.n + 1 ELSE 2,
         first |-> IF f.n = 0 THEN call ELSE f.first,
         prev |-> IF f.n = 0 THEN call ELSE f.last,
         last |-> call]

PaceInit ==
    /\ now = 0
    /\ loop = 1
    /\ startReportingAt = 0
    /\ channelOpenedAt = 0
    /\ tpc = "idle"
    /\ tickBuf = 0
    /\ waitBuf = 0
    /\ cycleBegan = 0
    /\ sent = 0
    /\ fetches = NoFetch
    /\ notified = FALSE
    /\ slow = FALSE

\* handleWebsocket up to its loop: loop from the parameter t, startReportingAt
\* from the parameter timestamp, channelOpenedAt: time.Now(), rep.WaitOn,
\* tick := time.Tick(loop).
Pace_Open ==
    /\ tpc = "idle"
    /\ \E d \in 1..MaxLoop : loop' = d
    /\ \E origin \in 0..MaxOrigin : startReportingAt' = origin
    /\ channelOpenedAt' = now
    /\ tpc' = "update"
    /\ UNCHANGED <<now, tickBuf, waitBuf, cycleBegan, sent, fetches, notified, slow,
                   otherThanPace>>

\* wc.update: rep.Report(ctx, reportTimestamp)
Pace_Report ==
    /\ tpc = "update"
    /\ sent < MaxSent
    /\ fetches' = Fetched(fetches, ReportTimestamp(startReportingAt, channelOpenedAt, now), now)
    /\ cycleBegan' = now
    /\ tpc' = "WriteJSON"
    /\ UNCHANGED <<now, loop, startReportingAt, channelOpenedAt, tickBuf, waitBuf, sent,
                   notified, slow, otherThanPace>>

\* wc.update: render, diff, wc.conn.WriteJSON(diff); return nil; on to the select.
Pace_WriteJSON ==
    /\ tpc = "WriteJSON"
    /\ sent' = sent + 1
    /\ tpc' = "select"
    /\ UNCHANGED <<now, loop, startReportingAt, channelOpenedAt, tickBuf, waitBuf,
                   cycleBegan, fetches, notified, slow, otherThanPace>>

\* select: case <-tick taken although the tick stays in the channel.
Pace_Select_Tick_Peek ==
    /\ tpc = "select"
    /\ tickBuf = 1
    /\ tpc' = "update"
    /\ UNCHANGED <<now, loop, startReportingAt, channelOpenedAt, tickBuf, waitBuf,
                   cycleBegan, sent, fetches, notified, slow, otherThanPace>>

\* select: case <-tick
Pace_Select_Tick ==
    /\ tpc = "select"
    /\ tickBuf = 1
    /\ tickBuf' = 0
    /\ tpc' = "update"
    /\ UNCHANGED <<now, loop, startReportingAt, channelOpenedAt, waitBuf, cycleBegan,
                   sent, fetches, notified, slow, otherThanPace>>

\* select: case <-wait
Pace_Select_Wait ==
    /\ tpc = "select"
    /\ waitBuf = 1
    /\ waitBuf' = 0
    /\ tpc' = "update"
    /\ UNCHANGED <<now, loop, startReportingAt, channelOpenedAt, tickBuf, cycleBegan,
                   sent, fetches, notified, slow, otherThanPace>>

\* The reporter signals a new report to the subscribed channel without blocking.
Pace_Notify ==
    /\ tpc \in {"update", "WriteJSON", "select"}
    /\ waitBuf = 0
    /\ waitBuf' = 1
    /\ notified' = TRUE
    /\ UNCHANGED <<now, loop, startReportingAt, channelOpenedAt, tpc, tickBuf, cycleBegan,
                   sent, fetches, slow, otherThanPace>>

\* One time unit passes, before the session, inside wc.update or in a select
\* that has nothing to receive. The ticker of time.Tick(loop) fires every loop
\* units from its creation on; its channel holds one tick and a tick that
\* finds it full is dropped.
Pace_Advance ==
    /\ now < MaxTime
    /\ \/ tpc \in {"idle", "WriteJSON"}
       \/ tpc = "select" /\ tickBuf = 0 /\ waitBuf = 0
    /\ now' = now + 1
    /\ tickBuf' = IF tpc # "idle" /\ (now + 1 - channelOpenedAt) % loop = 0
                    THEN 1 ELSE tickBuf
    /\ slow' = (slow \/ (tpc = "WriteJSON" /\ now + 1 - cycleBegan >= loop))
    /\ UNCHANGED <<loop, startReportingAt, channelOpenedAt, tpc, waitBuf, cycleBegan,
                   sent, fetches, notified, otherThanPace>>

PaceNext ==
    \/ Pace_Open \/ Pace_Report \/ Pace_WriteJSON
    \/ Pace_Select_Tick \/ Pace_Select_Wait
    \/ Pace_Notify \/ Pace_Advance

\* ------------------------------------------------ WriteToFile (FileSpec)
\* A path is its name up to the extensions followed by its extensions, each
\* with its dot: "report.msgpack.gz" is <<"report", ".msgpack", ".gz">>.
ResponseJson == <<"var/log/response", ".json">>

Paths ==
    {ResponseJson, <<"report", ".msgpack", ".gz">>, <<"report", ".binc">>,
     <<"report", ".txt">>, <<"report", ".txt", ".gz">>, <<"report">>}

\* filepath.Ext(path): the suffix from the last dot on, "" without a dot.
Ext(path) == IF Len(path) > 1 THEN path[Len(path)] ELSE ""

\* strings.TrimSuffix(path, suffix)
TrimSuffix(path, suffix) ==
    IF suffix # "" /\ Ext(path) = suffix THEN SubSeq(path, 1, Len(path) - 1) ELSE path

fileType(path) ==
    LET gzipped == Ext(path) = ".gz"
        ft == IF gzipped THEN Ext(TrimSuffix(path, Ext(path))) ELSE Ext(path)
    IN  CASE ft = ".json" -> [msgpack |-> 0, gzipped |-> gzipped, err |-> FALSE]
          [] ft = ".msgpack" -> [msgpack |-> 1, gzipped |-> gzipped, err |-> FALSE]
          [] ft = ".binc" -> [msgpack |-> 2, gzipped |-> gzipped, err |-> FALSE]
          [] OTHER -> [msgpack |-> 3, gzipped |-> FALSE, err |-> TRUE]

codecHandle(msgpack) ==
    CASE msgpack = 0 -> "JsonHandle"
      [] msgpack = 1 -> "MsgpackHandle"
      [] msgpack = 2 -> "BincHandle"
      [] OTHER -> "nil"

\* What can be at a path: nothing, a file of length zero, an encoding that
\* broke off, or a whole encoding in a format.
Absent == [kind |-> "absent"]

Empty == [kind |-> "empty"]

Partial == [kind |-> "partial"]

Encoded(handle, gzipped) == [kind |-> "encoded", handle |-> handle, gzipped |-> gzipped]

\* WriteToFile(path, rep) on the file system fs: every way the call can go,
\* as the error it returns and the file system it leaves.
\*   f, err := os.Create(path)         an error: returned, nothing done
\*   msgpack, gzipped, err := fileType(path)   an error: returned
\*   return codec.NewEncoder(w, codecHandle(msgpack)).Encode(rep)
WriteToFile(fs, path) ==
    LET created == [fs EXCEPT ![path] = Empty]
        ft == fileType(path)
    IN  {[err |-> TRUE, files |-> fs]} \cup
        IF ft.err
        THEN {[err |-> TRUE, files |-> created]}
        ELSE {[err |-> FALSE,
               files |-> [created EXCEPT ![path] = Encoded(codecHandle(ft.msgpack), ft.gzipped)]],
              [err |-> TRUE, files |-> [created EXCEPT ![path] = Partial]]}

NoWrite == [path |-> ResponseJson, err |-> FALSE, was |-> Absent, called |-> FALSE]

FileInit ==
    /\ files = [path \in Paths |-> Absent]
    /\ lastWrite = NoWrite

\* A caller writes a value to a path.
DoWriteToFile ==
    /\ \E path \in Paths : \E out \in WriteToFile(files, path) :
        /\ files' = out.files
        /\ lastWrite' = [path |-> path, err |-> out.err, was |-> files[path], called |-> TRUE]
    /\ UNCHANGED otherThanFile

\* Somebody removes a file; lastWrite is of no call any more.
RemoveFile ==
    /\ \E path \in Paths :
        /\ files[path] # Absent
        /\ files' = [files EXCEPT ![path] = Absent]
    /\ lastWrite' = NoWrite
    /\ UNCHANGED otherThanFile

FileNext == DoWriteToFile \/ RemoveFile

\* --------------------------------------------------- handleNode (NodeSpec)
NodeIDs == 1..NumNodes

\* A node as the renderer made it, or as the transformer changed it.
RenderedNode == "rendered"

FilteredNode == "filtered"

\* render.Nodes: Nodes, a map from node id to node, and the count Filtered.
RenderedNodes ==
    {[Nodes |-> [id \in ids |-> RenderedNode], Filtered |-> 0] : ids \in SUBSET NodeIDs}

TransformedNodes ==
    UNION {{[Nodes |-> m, Filtered |-> n] : m \in [ids -> {RenderedNode, FilteredNode}],
                                            n \in 0..MaxFiltered}
           : ids \in SUBSET NodeIDs}

\* nodes.Nodes[nodeID] = node
PutNode(nodes, nodeID, node) ==
    [id \in DOMAIN nodes \cup {nodeID} |-> IF id = nodeID THEN node ELSE nodes[id]]

\* handleNode looking the node up in the transformed nodes only.
handleNode_AfterTransform(rendered, transformed, nodeID) ==
    IF nodeID \notin DOMAIN transformed.Nodes
    THEN [status |-> 404, node |-> "none", nodes |-> rendered]
    ELSE [status |-> 200, node |-> transformed.Nodes[nodeID], nodes |-> transformed]

\* handleNode, given what renderer.Render and transformer.Transform return: the
\* status it answers with, the node and the nodes it hands to detailed.MakeNode.
handleNode(rendered, transformed, nodeID) ==
    IF nodeID \notin DOMAIN rendered.Nodes
    THEN [status |-> 404, node |-> "none", nodes |-> rendered]
    ELSE IF nodeID \in DOMAIN transformed.Nodes
         THEN [status |-> 200, node |-> transformed.Nodes[nodeID], nodes |-> transformed]
         ELSE [status |-> 200, node |-> rendered.Nodes[nodeID],
               nodes |-> [Nodes |-> PutNode(transformed.Nodes, nodeID, rendered.Nodes[nodeID]),
                          Filtered |-> transformed.Filtered - 1]]

NoNodeCall ==
    [nodeID |-> 1, rendered |-> [Nodes |-> EmptyMap, Filtered |-> 0],
     transformed |-> [Nodes |-> EmptyMap, Filtered |-> 0],
     response |-> [status |-> 0, node |-> "none", nodes |-> [Nodes |-> EmptyMap, Filtered |-> 0]],
     pending |-> FALSE]

NodeInit == nodeCall = NoNodeCall

\* A request for a node arrives: its node id, and what renderer.Render and
\* transformer.Transform are going to return for it.
NodeRequest ==
    /\ nodeCall = NoNodeCall
    /\ \E nodeID \in NodeIDs, rendered \in RenderedNodes, transformed \in TransformedNodes :
        nodeCall' = [NoNodeCall EXCEPT !.nodeID = nodeID, !.rendered = rendered,
                                       !.transformed = transformed, !.pending = TRUE]
    /\ UNCHANGED <<fileVars, otherThanNode>>

\* handleNode serves the request; having answered 200 it writes the answer to
\* var/log/response.json and ignores the error of that.
DoHandleNode ==
    /\ nodeCall.pending
    /\ LET r == handleNode(nodeCall.rendered, nodeCall.transformed, nodeCall.nodeID)
       IN  /\ nodeCall' = [nodeCall EXCEPT !.response = r, !.pending = FALSE]
           /\ IF r.status = 404
              THEN UNCHANGED fileVars
              ELSE \E out \in WriteToFile(files, ResponseJson) :
                       /\ files' = out.files
                       /\ lastWrite' = [path |-> ResponseJson, err |-> out.err,
                                        was |-> files[ResponseJson], called |-> TRUE]
    /\ UNCHANGED otherThanNode

\* The request is over.
NodeDone ==
    /\ nodeCall.response.status # 0
    /\ nodeCall' = NoNodeCall
    /\ UNCHANGED <<fileVars, otherThanNode>>

NodeNext == NodeRequest \/ DoHandleNode \/ NodeDone

\* -------------------------------------------- cm.mu, the RWMutex (LockSpec)
\* Goroutines calling Sets.Add, AddString, Delete and Merge and
\* CustomHashmap.String on values backed by customHashMap, at the grain of
\* cm.mu. A method that takes the lock, touches cm.Map and releases the lock
\* without a call in between is one step; ForEach and String, which call out
\* while they hold the read lock, are a step taking it, the steps of the
\* calls, and a step releasing it. Lock is two steps: the writer announces
\* itself, which makes every later RLock wait, and goes on once the readers
\* have left.
LockGoroutines == 1..NumGoroutines

Idle == [op |-> "none", pc |-> "idle", key |-> 1, value |-> {}, todo |-> {}, sSize |-> 0]

\* RLock returns at once unless a writer has called Lock.
CanRLock == mu.waiting = {}

\* Lock returns once no reader holds the lock.
CanLock == mu.readers = {}

LockInit ==
    /\ mu = [readers |-> {}, waiting |-> {}]
    /\ lcall = [g \in LockGoroutines |-> Idle]

\* A goroutine calls s.Add(key, value), s.AddString(key, str), s.Delete(key),
\* s.Merge(other) or String().
Lk_Call(g) ==
    /\ lcall[g].pc = "idle"
    /\ \/ \E key \in Keys, value \in StringSets :
            lcall' = [lcall EXCEPT ![g] = [Idle EXCEPT !.op = "Add", !.pc = "Lookup",
                                                       !.key = key, !.value = value]]
       \/ \E key \in Keys, str \in Strs :
            lcall' = [lcall EXCEPT ![g] = [Idle EXCEPT !.op = "AddString", !.pc = "Lookup",
                                                       !.key = key, !.value = {str}]]
       \/ \E key \in Keys :
            lcall' = [lcall EXCEPT ![g] = [Idle EXCEPT !.op = "Delete", !.pc = "Lock",
                                                       !.key = key]]
       \/ lcall' = [lcall EXCEPT ![g] = [Idle EXCEPT !.op = "Merge", !.pc = "sSize"]]
       \/ lcall' = [lcall EXCEPT ![g] = [Idle EXCEPT !.op = "String", !.pc = "RLock"]]
    /\ UNCHANGED <<customHashMap, mu, otherThanLock>>

\* Add, AddString: s.psMap.Lookup(key), then return s when nothing is to be
\* added, or go on to s.psMap.Set(key, value).
Lk_Lookup(g) ==
    /\ lcall[g].pc = "Lookup"
    /\ CanRLock
    /\ LET c == lcall[g]
           existing == CustomHashmap_Lookup(customHashMap, c.key)
           merged == StringSet_Merge(existing.val, c.value)
       IN  lcall' = [lcall EXCEPT ![g] =
                        IF existing.ok /\ merged.unchanged
                        THEN Idle
                        ELSE [c EXCEPT !.pc = "Lock",
                                       !.value = IF existing.ok THEN merged.set ELSE c.value]]
    /\ UNCHANGED <<customHashMap, mu, otherThanLock>>

\* Set, Delete: cm.mu.Lock() is called.
Lk_Lock(g) ==
    /\ lcall[g].pc = "Lock"
    /\ mu' = [mu EXCEPT !.waiting = @ \cup {g}]
    /\ lcall' = [lcall EXCEPT ![g].pc = "Locked"]
    /\ UNCHANGED <<customHashMap, otherThanLock>>

\* Set, Delete: Lock returns, cm.Map is written, the lock is released. Called
\* from Merge's callback the iteration goes on, otherwise the call is over.
Lk_Write(g) ==
    /\ lcall[g].pc = "Locked"
    /\ CanLock
    /\ LET c == lcall[g]
       IN  /\ customHashMap' = IF c.op = "Delete"
                                 THEN CustomHashmap_Delete(customHashMap, c.key)
                                 ELSE CustomHashmap_Set(customHashMap, c.key, c.value)
           /\ lcall' = [lcall EXCEPT ![g] = IF c.op = "Merge"
                                             THEN [c EXCEPT !.pc = "Callback"]
                                             ELSE Idle]
    /\ mu' = [mu EXCEPT !.waiting = @ \ {g}]
    /\ UNCHANGED otherThanLock

\* Merge: sSize = s.Size(), then otherSize = other.Size(); with one of them 0
\* Merge returns, otherwise it goes on to iter.ForEach.
Lk_Size(g) ==
    /\ lcall[g].pc \in {"sSize", "otherSize"}
    /\ CanRLock
    /\ LET c == lcall[g]
           size == CustomHashmap_Size(customHashMap)
       IN  lcall' = [lcall EXCEPT ![g] =
                        IF c.pc = "sSize"
                        THEN IF size = 0 THEN Idle
                             ELSE [c EXCEPT !.pc = "otherSize", !.sSize = size]
                        ELSE IF size = 0 THEN Idle ELSE [c EXCEPT !.pc = "RLock"]]
    /\ UNCHANGED <<customHashMap, mu, otherThanLock>>

\* ForEach, String: cm.mu.RLock() returns; the keys to go through.
Lk_RLock(g) ==
    /\ lcall[g].pc = "RLock"
    /\ CanRLock
    /\ mu' = [mu EXCEPT !.readers = @ \cup {g}]
    /\ lcall' = [lcall EXCEPT ![g] =
                    IF lcall[g].op = "String"
                    THEN [@ EXCEPT !.pc = "Keys"]
                    ELSE [@ EXCEPT !.pc = IF CustomHashmap_Keys(customHashMap) = {}
                                            THEN "RUnlock" ELSE "Callback",
                                   !.todo = CustomHashmap_Keys(customHashMap)]]
    /\ UNCHANGED <<customHashMap, otherThanLock>>

\* Merge's callback for one key of the table, under ForEach's read lock:
\* result.Lookup(key), the StringSet Merge, and the return when that changed
\* nothing; otherwise on to result.Set(key, set).
Lk_Callback(g) ==
    /\ lcall[g].pc = "Callback"
    /\ CanRLock
    /\ \E key \in lcall[g].todo :
        LET c == lcall[g]
            set == customHashMap[key]
            existing == CustomHashmap_Lookup(customHashMap, key)
            merged == StringSet_Merge(existing.val, set)
            rest == c.todo \ {key}
        IN  lcall' = [lcall EXCEPT ![g] =
                         IF existing.ok /\ merged.unchanged
                         THEN [c EXCEPT !.todo = rest,
                                        !.pc = IF rest = {} THEN "RUnlock" ELSE "Callback"]
                         ELSE [c EXCEPT !.todo = rest, !.pc = "Lock", !.key = key,
                                        !.value = IF existing.ok THEN merged.set ELSE set]]
    /\ UNCHANGED <<customHashMap, mu, otherThanLock>>

\* String: keys := cm.Keys(), under String's read lock.
Lk_Keys(g) ==
    /\ lcall[g].pc = "Keys"
    /\ CanRLock
    /\ lcall' = [lcall EXCEPT ![g] =
                    [@ EXCEPT !.pc = IF CustomHashmap_Keys(customHashMap) = {}
                                       THEN "RUnlock" ELSE "StringLookup",
                              !.todo = CustomHashmap_Keys(customHashMap)]]
    /\ UNCHANGED <<customHashMap, mu, otherThanLock>>

\* String: val, _ := cm.Lookup(key) for the next key, under String's read lock.
Lk_StringLookup(g) ==
    /\ lcall[g].pc = "StringLookup"
    /\ CanRLock
    /\ \E key \in lcall[g].todo :
        LET rest == lcall[g].todo \ {key}
        IN  lcall' = [lcall EXCEPT ![g] =
                         [@ EXCEPT !.todo = rest,
                                   !.pc = IF rest = {} THEN "RUnlock" ELSE "StringLookup"]]
    /\ UNCHANGED <<customHashMap, mu, otherThanLock>>

\* ForEach, String: the deferred cm.mu.RUnlock().
Lk_RUnlock(g) ==
    /\ lcall[g].pc = "RUnlock"
    /\ mu' = [mu EXCEPT !.readers = @ \ {g}]
    /\ lcall' = [lcall EXCEPT ![g] = Idle]
    /\ UNCHANGED <<customHashMap, otherThanLock>>

LockNext ==
    \E g \in LockGoroutines :
        \/ Lk_Call(g) \/ Lk_Lookup(g) \/ Lk_Lock(g) \/ Lk_Write(g) \/ Lk_Size(g)
        \/ Lk_RLock(g) \/ Lk_Callback(g) \/ Lk_Keys(g) \/ Lk_StringLookup(g)
        \/ Lk_RUnlock(g)

Init ==
    /\ SetsInit /\ BuildInit /\ ConcInit /\ WsInit /\ PaceInit /\ FileInit /\ NodeInit
    /\ LockInit

WsSpec == Init /\ [][WsNext]_vars

\* A goroutine that can run is run: the reader gets to see the error of its
\* ReadMessage, and the handler gets to run its deferred calls.
WsFairSpec ==
    WsSpec /\ WF_vars(Reader_ReadMessage) /\ WF_vars(Defer_UnWait) /\ WF_vars(Defer_Close)

\* Every step the handler goroutine can take it takes, the ticker keeps firing,
\* and a select that finds quit closed again and again takes that case in the
\* end (select picks among its ready cases uniformly at random).
WsLiveSpec ==
    /\ WsFairSpec
    /\ WF_vars(ParseForm) /\ WF_vars(ParseDuration) /\ WF_vars(Upgrade)
    /\ WF_vars(StartReader) /\ WF_vars(WaitOn) /\ WF_vars(StartTicker)
    /\ WF_vars(Update_Begin) /\ WF_vars(Update_Report)
    /\ WF_vars(Update_RendererForTopology) /\ WF_vars(Update_TopoDiff)
    /\ WF_vars(Update_WriteJSON)
    /\ WF_vars(Select_Wait) /\ WF_vars(Select_Tick) /\ SF_vars(Select_Quit)
    /\ WF_vars(Tick)

PaceSpec == Init /\ [][PaceNext]_vars

LockSpec == Init /\ [][LockNext]_vars

FileSpec == Init /\ [][FileNext]_vars

NodeSpec == Init /\ [][NodeNext]_vars

BuildSpec == Init /\ [][BuildNext]_vars

ConcSpec == Init /\ [][ConcNext]_vars

\* ------------------------------------------------- sequential calls (Spec)

\* What `last` records of one whole call made on receiver r.
Called(op, r, key, value, other, res) ==
    [op |-> op, recv |-> Receiver(r), fresh |-> (r = "MakeSets"),
     key |-> key, value |-> value, other |-> other,
     result |-> res.result, before |-> customHashMap]

\* held = recv.Add(key, value)
DoAdd ==
    \E r \in Receivers, key \in Keys, value \in StringSets :
        LET res == Sets_Add(customHashMap, Receiver(r), key, value)
        IN  /\ customHashMap' = res.m
            /\ held' = res.result
            /\ last' = Called("Add", r, key, value, ZeroSets, res)
            /\ UNCHANGED otherThanSets

\* held = recv.AddString(key, str)
DoAddString ==
    \E r \in Receivers, key \in Keys, str \in Strs :
        LET res == Sets_AddString(customHashMap, Receiver(r), key, str)
        IN  /\ customHashMap' = res.m
            /\ held' = res.result
            /\ last' = Called("AddString", r, key, {str}, ZeroSets, res)
            /\ UNCHANGED otherThanSets

\* held = recv.Delete(key)
DoDelete ==
    \E r \in Receivers, key \in Keys :
        LET res == Sets_Delete(customHashMap, Receiver(r), key)
        IN  /\ customHashMap' = res.m
            /\ held' = res.result
            /\ last' = Called("Delete", r, key, {}, ZeroSets, res)
            /\ UNCHANGED otherThanSets

\* held = recv.Merge(other)
DoMerge ==
    \E r \in Receivers, o \in Receivers :
        LET res == Sets_Merge(customHashMap, Receiver(r), Receiver(o))
        IN  /\ customHashMap' = res.m
            /\ held' = res.result
            /\ last' = Called("Merge", r, 1, {}, Receiver(o), res)
            /\ UNCHANGED otherThanSets

Next == DoAdd \/ DoAddString \/ DoDelete \/ DoMerge

Spec == Init /\ [][Next]_vars

\* ------------------------------------------------- claims on Sets (Spec)

\* C1: computing s.Add(k, v) leaves what s.Lookup shows as it was before the
\* call, for k and for every other key: the receiver is untouched.
C1_AddLeavesReceiver ==
    last.op = "Add" =>
        \A k \in Keys :
            Sets_Lookup(customHashMap, last.recv, k)
                = Sets_Lookup(last.before, last.recv, k)

\* C2: a = s.Add(k1, v1) and b = s.AddString(k2, x) run concurrently, k1 # k2.
\* Every Lookup, Keys and Size made on s while and after they run shows s's
\* original contents; once both have returned, a holds k1 with s's set plus v1
\* and shows k2 as s had it, and b holds k2 with s's set plus x and shows k1 as
\* s had it.
C2_ConcurrentDerivationsIndependent ==
    LET was(k) == Sets_Lookup(shared.orig, MakeSets, k)
    IN  /\ seen.kind = "Lookup" => seen.lookup = was(seen.key)
        /\ seen.kind = "Keys" => seen.keys = DOMAIN shared.orig
        /\ seen.kind = "Size" => seen.size = Cardinality(DOMAIN shared.orig)
        /\ (\A g \in Goroutines : gpc[g] = "done") =>
               /\ Sets_Lookup(customHashMap, derived["Add"], shared.k1)
                      = [set |-> was(shared.k1).set \cup shared.v1, found |-> TRUE]
               /\ Sets_Lookup(customHashMap, derived["Add"], shared.k2) = was(shared.k2)
               /\ Sets_Lookup(customHashMap, derived["AddString"], shared.k2)
                      = [set |-> was(shared.k2).set \cup {shared.x}, found |-> TRUE]
               /\ Sets_Lookup(customHashMap, derived["AddString"], shared.k1) = was(shared.k1)

\* C3: d = s.Delete(k), for s holding k: d.Lookup(k) is (empty, not found),
\* s.Lookup(k) is still s's set with found = true, s.Size() is as before, and
\* the values that are not derived from d (s, the zero value) are unaltered.
C3_DeleteLeavesOthers ==
    (last.op = "Delete" /\ Sets_Lookup(last.before, last.recv, last.key).found) =>
        /\ Sets_Lookup(customHashMap, last.result, last.key)
               = [set |-> MakeStringSet, found |-> FALSE]
        /\ Sets_Lookup(customHashMap, last.recv, last.key)
               = Sets_Lookup(last.before, last.recv, last.key)
        /\ Sets_Size(customHashMap, last.recv) = Sets_Size(last.before, last.recv)
        /\ \A t \in {last.recv, ZeroSets} :
               Sets_Contents(customHashMap, t) = Sets_Contents(last.before, t)

\* C4: whatever calls were made before, a fresh MakeSets() has Size() = 0, no
\* keys, and Lookup(k) = (empty, not found) for every key k.
C4_MakeSetsIsEmpty ==
    /\ Sets_Size(customHashMap, MakeSets) = 0
    /\ Sets_Keys(customHashMap, MakeSets) = {}
    /\ \A k \in Keys :
           Sets_Lookup(customHashMap, MakeSets, k)
               = [set |-> MakeStringSet, found |-> FALSE]

\* C5: for operands s1, s2 each built by its own Add/AddString calls from
\* MakeSets(), and every key k: s1.Merge(s2).Lookup(k) is the union of what was
\* put under k in s1 and in s2, found iff k was put in either; the result has
\* no key that is in neither.
C5_MergeIsKeywiseUnion ==
    lastMerge.done =>
        LET b1 == built[lastMerge.s1]
            b2 == built[lastMerge.s2]
            of(b, k) == IF k \in DOMAIN b THEN b[k] ELSE {}
        IN  /\ \A k \in Keys :
                   Sets_Lookup(customHashMap, lastMerge.result, k)
                       = [set |-> of(b1, k) \cup of(b2, k),
                          found |-> (k \in DOMAIN b1 \cup DOMAIN b2)]
            /\ Sets_Keys(customHashMap, lastMerge.result) \subseteq DOMAIN b1 \cup DOMAIN b2

C7_AddStringIdempotent ==
    last.op = "AddString" =>
        LET x == CHOOSE str \in last.value : TRUE
            again == Sets_AddString(customHashMap, last.result, last.key, x)
        IN  /\ Sets_DeepEqual(again.m, again.result, last.result)
            /\ again.m = customHashMap
            /\ Sets_Lookup(customHashMap, last.result, last.key)
                   = [set |-> Sets_Lookup(last.before, last.recv, last.key).set \cup {x},
                      found |-> TRUE]
            /\ \A k \in Keys \ {last.key} :
                   Sets_Lookup(customHashMap, last.result, k)
                       = Sets_Lookup(last.before, last.recv, k)

\* C8: r = MakeSets().Add(k, v), whatever calls were made before:
\* r.Lookup(k) = (v, found) and r.Size() = 1.
C8_AddOnEmptyStoresValue ==
    (last.op = "Add" /\ last.fresh) =>
        /\ Sets_Lookup(customHashMap, last.result, last.key)
               = [set |-> last.value, found |-> TRUE]
        /\ Sets_Size(customHashMap, last.result) = 1

\* ------------------------------------- claims on handleWebsocket (WsSpec)

\* C9: at most one update cycle is in flight: wc.update is not called again
\* before the previous call's WriteJSON has returned or the call has failed.
C9_OneUpdateInFlight ==
    /\ inflight \in {0, 1}
    /\ hpc \in {"Report", "RendererForTopology", "TopoDiff", "WriteJSON"} <=> inflight = 1

\* A second cycle is fetching while a tick, a notification and the close signal
\* are all pending.
C9_Witness ==
    /\ hpc = "Report"
    /\ cycle.preceding # EmptyTopo
    /\ inflight = 1
    /\ tickCh = 1 /\ waitCh = 1 /\ quit

\* C10 as claimed: whenever an upgraded session's handler has returned, the
\* subscription is deregistered, the connection is closed and the reader
\* goroutine has stopped.
C10_TeardownAllAtOnce ==
    (hpc = "returned" /\ conn # "none") =>
        /\ ~subscribed
        /\ conn = "closed"
        /\ rpc = "stopped"

\* C10 amended: whenever an upgraded session's handler has returned, whatever
\* made it leave the loop, UnWait and conn.Close() have run; the reader goroutine
\* has stopped already when the handler left on the close signal, and otherwise
\* stops afterwards, once its ReadMessage fails on the closed connection.
C10_TeardownCompletes ==
    /\ []((hpc = "returned" /\ conn # "none") =>
            /\ ~subscribed
            /\ conn = "closed"
            /\ cause \in {"quit", "Report", "RendererForTopology", "WriteJSON"}
            /\ (cause = "quit" => rpc = "stopped"))
    /\ [](hpc \in {"UnWait", "Close"} => <>(hpc = "returned" /\ rpc = "stopped"))

\* The handler returned on a failed fetch and the reader has stopped after it.
C10_Witness ==
    /\ hpc = "returned"
    /\ cause = "Report"
    /\ conn = "closed" /\ ~subscribed
    /\ peer = "open"
    /\ rpc = "stopped"

\* ------------------------------- claims on cancellation and the close signal

\* The session is streaming: the handler is in its loop, in wc.update or in
\* the select.
Streaming ==
    hpc \in {"update", "Report", "RendererForTopology", "TopoDiff", "WriteJSON", "select"}

\* C11: once ctx is cancelled while the session is streaming, the session
\* eventually is closed: the handler has returned, the reader goroutine has
\* stopped, UnWait has run and the connection is closed.
C11_CancelTearsDown ==
    (ctxDone /\ Streaming) ~>
        (hpc = "returned" /\ rpc = "stopped" /\ ~subscribed /\ conn = "closed")

\* C12 as claimed: with quit closed, a loop that is in its select leaves it
\* only by returning, also when a tick or a notification is pending: no
\* further update cycle starts.
C12_NoCycleAfterClose ==
    [][(quit /\ hpc = "select") => hpc' \in {"select", "UnWait"}]_vars

\* C12 amended: with quit closed the select never blocks; it returns unless a
\* tick or a notification is pending too, in which case it may take that and
\* run a further cycle; and the handler returns in the end.
C12_CloseEndsLoop ==
    /\ [][(quit /\ hpc = "select" /\ tickCh = 0 /\ waitCh = 0)
            => hpc' \in {"select", "UnWait"}]_vars
    /\ [][(quit /\ hpc = "select" /\ hpc' = "update")
            => (tickCh' < tickCh \/ waitCh' < waitCh)]_vars
    /\ (quit ~> hpc = "returned")

\* The loop left on the close signal while a tick and a notification were
\* pending.
C12_Witness ==
    /\ hpc = "returned"
    /\ cause = "quit"
    /\ tickCh = 1 /\ waitCh = 1

\* ------------------------------------- claims on the paced loop (PaceSpec)

\* The time the session has been running for, and the poll intervals in it.
Elapsed == now - channelOpenedAt

FloorIntervals == Elapsed \div loop

CeilIntervals == (Elapsed + loop - 1) \div loop

\* C13 as claimed: in a session without notifications that has run for D, the
\* number of diffs written lies in [floor(D/P), ceil(D/P) + 1], however long
\* the update cycles take.
C13_CountWithinCadence ==
    (tpc # "idle" /\ ~notified) =>
        (FloorIntervals <= sent /\ sent <= CeilIntervals + 1)

\* C13 amended: without notifications the number of diffs written is at most
\* ceil(D/P) + 1 however long the cycles take, and at least floor(D/P) as long
\* as every cycle has taken less than a poll interval.
C13_CountWithinCadenceOfFastCycles ==
    (tpc # "idle" /\ ~notified) =>
        /\ sent <= CeilIntervals + 1
        /\ ~slow => FloorIntervals <= sent

\* Several poll intervals have passed, the cycles were fast, and a cycle per
\* tick was written on top of the first.
C13_Witness ==
    /\ tpc = "select" /\ ~notified /\ ~slow
    /\ loop > 1
    /\ Elapsed >= 2 * loop
    /\ sent = FloorIntervals + 1

\* C20: the timestamp of each fetch is the replay origin plus the time the
\* session has been open for: the timestamps handed to rep.Report never go
\* back, the first is at or after the origin, and any two differ by the time
\* that passed between their cycles, whatever the poll interval and the
\* notifications.
C20_ReplayPacedOneToOne ==
    fetches.n > 0 =>
        /\ fetches.first.ts >= startReportingAt
        /\ fetches.first.ts - startReportingAt = fetches.first.at - channelOpenedAt
        /\ fetches.prev.ts <= fetches.last.ts
        /\ fetches.last.ts - fetches.prev.ts = fetches.last.at - fetches.prev.at
        /\ fetches.last.ts - fetches.first.ts = fetches.last.at - fetches.first.at

\* A session opened after the clock's start, replaying from a later origin,
\* has fetched at three different times, once on a notification.
C20_Witness ==
    /\ fetches.n = 2
    /\ fetches.first.at < fetches.prev.at /\ fetches.prev.at < fetches.last.at
    /\ channelOpenedAt > 0 /\ startReportingAt > 0
    /\ notified

\* -------------------------------------------- claims on handleNode (NodeSpec)

\* C14: handleNode answers 404 exactly when the node id is absent from what
\* the renderer returned. A node the transformer dropped is put back as the
\* renderer made it and Filtered is one less than the transformer reported; a
\* node the transformer kept is used as the transformer returned it, with the
\* transformer's nodes and Filtered unchanged.
C14_NodeSurvivesFiltering ==
    LET c == nodeCall
        r == c.response
    IN  r.status # 0 =>
        /\ r.status \in {200, 404}
        /\ r.status = 404 <=> c.nodeID \notin DOMAIN c.rendered.Nodes
        /\ (r.status = 200 /\ c.nodeID \notin DOMAIN c.transformed.Nodes) =>
            /\ r.node = c.rendered.Nodes[c.nodeID]
            /\ DOMAIN r.nodes.Nodes = DOMAIN c.transformed.Nodes \cup {c.nodeID}
            /\ r.nodes.Nodes[c.nodeID] = c.rendered.Nodes[c.nodeID]
            /\ \A id \in DOMAIN c.transformed.Nodes :
                   r.nodes.Nodes[id] = c.transformed.Nodes[id]
            /\ r.nodes.Filtered = c.transformed.Filtered - 1
        /\ (r.status = 200 /\ c.nodeID \in DOMAIN c.transformed.Nodes) =>
            /\ r.node = c.transformed.Nodes[c.nodeID]
            /\ r.nodes = c.transformed

\* The transformer dropped the requested node, kept another in a changed form
\* and reported two nodes filtered: the answer is 200.
C14_Witness ==
    /\ nodeCall.response.status = 200
    /\ nodeCall.nodeID \notin DOMAIN nodeCall.transformed.Nodes
    /\ \E id \in DOMAIN nodeCall.transformed.Nodes :
           nodeCall.transformed.Nodes[id] = FilteredNode
    /\ nodeCall.transformed.Filtered = 2
    /\ nodeCall.response.nodes.Filtered = 1

\* ------------------------------------------- claims on WriteToFile (FileSpec)

\* C15: WriteToFile called with a path whose suffix (after an optional .gz) is
\* none of .json, .msgpack and .binc returns an error and leaves the file
\* system as it was: no file at the path that was not there before.
C15_UnsupportedSuffixWritesNothing ==
    (lastWrite.called /\ fileType(lastWrite.path).err) =>
        /\ lastWrite.err
        /\ files[lastWrite.path] = lastWrite.was

\* ----------------------------------------- claims on the request's parameters

\* C16: a request whose t is not a duration or whose topology id is unknown
\* is rejected before anything is acquired: the connection is never upgraded,
\* no reader goroutine is started, WaitOn is never called and no report is
\* fetched.
C16_BadInputAcquiresNothing ==
    (request.t = "malformed" \/ request.topology = "unknown") =>
        /\ conn = "none"
        /\ rpc = "none"
        /\ ~subscribed
        /\ ~fetched

\* --------------------------------------- claims on failures and on the diffs
Leaving == hpc \in {"UnWait", "Close", "returned"}

\* C17: a cycle whose Report or RendererForTopology returns an error writes no
\* diff and leaves wc.previousTopo as it was, and the handler leaves its loop
\* without another fetch; so does a handler whose WriteJSON fails other than
\* by an expected close; an expected close error of WriteJSON is no failure
\* of the cycle.
C17_FailuresEndTheSession ==
    /\ cause \in {"Report", "RendererForTopology"} =>
        /\ cycle.written = "none"
        /\ previousTopo = cycle.preceding
        /\ Leaving
    /\ cause = "WriteJSON" => (cycle.written = "failed" /\ Leaving)
    /\ cycle.written = "expected" => cause \in {"none", "quit"}
    /\ (hpc = "select" /\ cycle.written = "expected") => cause = "none"

\* A session that has written diffs ends on a cycle whose renderer resolution
\* failed.
C17_Witness ==
    /\ cause = "RendererForTopology"
    /\ hpc = "returned"
    /\ client.count = 2
    /\ previousTopo # EmptyTopo

\* C18 as claimed: after each cycle wc.previousTopo is that cycle's summaries,
\* the cycle's diff is the one from the preceding cycle's summaries (the empty
\* ones for the first), and the diffs written so far, applied in order to the
\* empty summaries, give wc.previousTopo.
C18_DiffsGiveStoredSnapshot ==
    hpc = "select" =>
        /\ previousTopo = cycle.newTopo
        /\ cycle.diff = TopoDiff(cycle.preceding, cycle.newTopo)
        /\ client.topo = previousTopo

\* C18 amended: as claimed for the cycles whose WriteJSON succeeded; a cycle
\* whose WriteJSON met an expected close has replaced wc.previousTopo all the
\* same, with the browser's end closed for good.
C18_WrittenDiffsGiveStoredSnapshot ==
    /\ hpc = "select" =>
        /\ previousTopo = cycle.newTopo
        /\ cycle.diff = TopoDiff(cycle.preceding, cycle.newTopo)
    /\ cycle.written = "ok" =>
        /\ client.topo = previousTopo
        /\ client.count = 1 => cycle.preceding = EmptyTopo
    /\ cycle.written = "expected" => peer # "open"
    /\ client.count = 0 => client.topo = EmptyTopo

\* A later cycle has written a diff that removes a node and adds none.
C18_Witness ==
    /\ hpc = "select"
    /\ cycle.written = "ok"
    /\ client.count = 2
    /\ cycle.diff.remove # {} /\ cycle.diff.add = {}

\* ------------------------------------------------- claims on cm.mu (LockSpec)

\* The goroutine is in a call and cannot go on: it needs the read lock while
\* a writer waits, or it waits as a writer while readers hold the lock.
Blocked(g) ==
    \/ lcall[g].pc \in {"Lookup", "sSize", "otherSize", "RLock", "Callback", "Keys",
                        "StringLookup"} /\ ~CanRLock
    \/ lcall[g].pc = "Locked" /\ ~CanLock

\* C19: the Sets operations never deadlock, whichever way Merge and String,
\* which read the table while they hold its read lock, interleave with Add,
\* AddString and Delete, which take its write lock: the goroutines that are in
\* a call are never all blocked; and Merge's callback never asks for the write
\* lock of the table ForEach is iterating.
C19_SetsNeverDeadlock ==
    /\ ~(/\ \E g \in LockGoroutines : lcall[g].pc # "idle"
         /\ \A g \in LockGoroutines : lcall[g].pc # "idle" => Blocked(g))
    /\ \A g \in LockGoroutines : lcall[g].op = "Merge" => lcall[g].pc \notin {"Lock", "Locked"}

====
